---- MODULE Spec2Model ----
(***************************************************************************)
(* BaseMountRetrieve: resolution of a BaseMount Project / Run into run     *)
(* objects (BaseMountProject, BaseMountRun, BaseMountSample,               *)
(* BaseMountNextSeqRun) and their materialization into a local MiSeq-style *)
(* run folder (src/BaseMountRetrieve/basemountretrieve.py).                *)
(*                                                                         *)
(* Text is modelled at word level: a line or a file name is a sequence of  *)
(* tokens, a literal the code searches for ('Experiment Name', '_R1_',     *)
(* 'Undetermined', ',') is one token, `lit in s` holds when the token      *)
(* occurs in the sequence, and split / strip work on the tokens.           *)
(***************************************************************************)
EXTENDS Integers, Sequences, FiniteSets, TLC

VARIABLES
    mode,        \* entry point of the command: "project" | "run" | "nextseq" | "rejected"
                 \* (no entry point is called), or "sheet" | "locate" | "samples"
                 \* (single functions)
    rename,      \* the --rename flag
    mount,       \* the mounted source tree: the sequence of Run directories
    out,         \* the output tree: output directory name -> its content
    pc,          \* position of the process in the entry point
    ri,          \* project mode: index of the next Run directory to resolve
    idx,         \* project mode: index of the Run object being materialized
    run_objects, \* BaseMountProject.run_objects built so far
    cur,         \* the Run object being materialized
    err,         \* the exception that ended the invocation ("none" while running)
    copies,      \* output directory name -> files this invocation copied into it
    start,       \* the output tree as it was when this invocation started
    calls,       \* invocations of the command started so far
    log,         \* messages logged by this invocation
    ret,         \* result of the function applied (specifications of single functions)
    argv,        \* the options the command was started with
    partial,     \* the Run output directories a terminated process left behind:
                 \* directory name, its content, the invocation that was terminated
    touched      \* the source paths a call has written, moved, removed or chmod-ed

vars == <<mode, rename, mount, out, pc, ri, idx, run_objects, cur, err, copies, start,
          calls, log, ret, argv, partial, touched>>

----------------------------------------------------------------------------
(* Bounds of the model *)

MaxRuns == 2          \* Run directories of a project
MaxCalls == 2         \* invocations of the command on the same out_dir
MaxLines == 3         \* header lines of a sample sheet
MaxEntries == 2       \* entries of a Run directory, and of its Properties/Output.Samples

----------------------------------------------------------------------------
(* Python values *)

None == "None"                          \* None in a string- or path-valued field
NoPath == [dir |-> <<>>, name |-> <<>>]  \* None in a read-file field (r1, r2, ...)
NoName == <<None>>                      \* None where a name (token sequence) is expected

Return(v) == [ok |-> TRUE, val |-> v, err |-> "none"]
Raise(e, dflt) == [ok |-> FALSE, val |-> dflt, err |-> e]

Range(s) == {s[i] : i \in 1..Len(s)}

\* The searched literals that occur inside one token: a lane-qualified read
\* marker holds both the read marker and the lane marker, 'Name:' holds 'Name'
Lits(tok) ==
    CASE tok = "_L001_R1_" -> {tok, "_R1_", "L001_R1"}
      [] tok = "_L001_R2_" -> {tok, "_R2_", "L001_R2"}
      [] tok = "_L002_R1_" -> {tok, "_R1_", "L002_R1"}
      [] tok = "_L002_R2_" -> {tok, "_R2_", "L002_R2"}
      [] tok = "_L003_R1_" -> {tok, "_R1_", "L003_R1"}
      [] tok = "_L003_R2_" -> {tok, "_R2_", "L003_R2"}
      [] tok = "_L004_R1_" -> {tok, "_R1_", "L004_R1"}
      [] tok = "_L004_R2_" -> {tok, "_R2_", "L004_R2"}
      [] tok = "Name:" -> {tok, "Name"}
      [] tok = "SampleId:" -> {tok, "SampleId"}
      [] tok = "SampleNumber:" -> {tok, "SampleNumber"}
      [] tok = "NumReadsRaw:" -> {tok, "NumReadsRaw"}
      [] tok = "NumReadsPF:" -> {tok, "NumReadsPF"}
      [] OTHER -> {tok}

\* `lit in line` (a substring test)
Contains(lit, line) == \E i \in 1..Len(line) : lit \in Lits(line[i])

\* str.split(sep): the fields of line between occurrences of sep
RECURSIVE Split(_, _)
Split(line, sep) ==
    IF sep \notin Range(line) THEN <<line>>
    ELSE LET i == CHOOSE k \in 1..Len(line) :
                      line[k] = sep /\ \A j \in 1..(k - 1) : line[j] # sep
         IN  <<SubSeq(line, 1, i - 1)>> \o Split(SubSeq(line, i + 1, Len(line)), sep)

\* str.split(sep, 1): at most one split
Split1(line, sep) ==
    IF sep \notin Range(line) THEN <<line>>
    ELSE LET i == CHOOSE k \in 1..Len(line) :
                      line[k] = sep /\ \A j \in 1..(k - 1) : line[j] # sep
         IN  <<SubSeq(line, 1, i - 1), SubSeq(line, i + 1, Len(line))>>

Whitespace == {" ", "NL"}

\* str.strip()
RECURSIVE Strip(_)
Strip(s) ==
    IF s = <<>> THEN s
    ELSE IF Head(s) \in Whitespace THEN Strip(Tail(s))
    ELSE IF s[Len(s)] \in Whitespace THEN Strip(SubSeq(s, 1, Len(s) - 1))
    ELSE s

\* Path.is_file / Path.is_dir / Path.exists on the kind of a path
Kinds == {"absent", "file", "dir"}
is_file(k) == k = "file"
is_dir(k) == k = "dir"
exists(k) == k # "absent"

----------------------------------------------------------------------------
(* BaseMountRun: locating the metadata of a Run *)

SampleSheetCandidates ==
    << "Properties/Input.sample-sheet",
       "Files/SampleSheet.csv",
       "Properties/Input.Libraries/0/Properties/Output.Runs/0/Files/SampleSheet.csv" >>

RunInfoCandidates ==
    << "Properties/Input.Runs/0/Files/RunInfo.xml",
       "Logs/RunInfo.xml",
       "Files/RunInfo.xml" >>

RunParametersCandidates ==
    << "Properties/Input.Runs/0/Files/RunParameters.xml",
       "Files/RunParameters.xml" >>

\* The first candidate (in order) that is a regular file, 0 when there is none
FirstFile(kinds) ==
    IF \E i \in 1..Len(kinds) : is_file(kinds[i])
    THEN CHOOSE i \in 1..Len(kinds) :
             is_file(kinds[i]) /\ \A j \in 1..(i - 1) : ~is_file(kinds[j])
    ELSE 0

\* Variants of the locators: any existing entry counts; the last place first
get_samplesheet_any_entry(rd) ==
    IF \E i \in 1..Len(rd.ss) : exists(rd.ss[i])
    THEN Return(SampleSheetCandidates[CHOOSE i \in 1..Len(rd.ss) :
                    exists(rd.ss[i]) /\ \A j \in 1..(i - 1) : ~exists(rd.ss[j])])
    ELSE Raise("FileNotFoundError", None)

get_runinfoxml_last_first(rd) ==
    IF \E i \in 1..Len(rd.ri) : is_file(rd.ri[i])
    THEN RunInfoCandidates[CHOOSE i \in 1..Len(rd.ri) :
             is_file(rd.ri[i]) /\ \A j \in (i + 1)..Len(rd.ri) : ~is_file(rd.ri[j])]
    ELSE None

get_samplesheet(rd) ==
    LET i == FirstFile(rd.ss)
    IN  IF i # 0 THEN Return(SampleSheetCandidates[i])
        ELSE Raise("FileNotFoundError", None)

get_runinfoxml(rd) ==
    LET i == FirstFile(rd.ri)
    IN  IF i # 0 THEN RunInfoCandidates[i] ELSE None

get_runparametersxml(rd) ==
    LET i == FirstFile(rd.rp)
    IN  IF i # 0 THEN RunParametersCandidates[i] ELSE None

\* extract_experiment_name: the first line holding either marker decides
RECURSIVE extract_experiment_name(_)
extract_experiment_name(lines) ==
    IF lines = <<>> THEN Raise("Exception", NoName)
    ELSE LET line == Head(lines)
             f == Split(line, ",")
         IN  IF Contains("Experiment Name", line)
             THEN IF Len(f) < 2 THEN Raise("IndexError", NoName) ELSE Return(Strip(f[2]))
             ELSE IF Contains("Description", line)
             THEN IF Len(f) < 2 THEN Raise("IndexError", NoName) ELSE Return(Strip(f[2]))
             ELSE extract_experiment_name(Tail(lines))

\* parse_samplesheet followed by samplesheet_df['Sample_ID'].tolist(): the rows
\* after the line holding '[Data]' are read as a table whose first row names
\* the columns (pandas.read_csv with skiprows = lines up to and with '[Data]')
parse_samplesheet(lines) ==
    LET n == Len(lines)
        hit == {k \in 1..n : Contains("[Data]", lines[k])}
        counter == IF hit = {} THEN n + 1
                   ELSE CHOOSE k \in hit : \A j \in hit : k <= j
        table == SubSeq(lines, counter + 1, n)
        columns == IF table = <<>> THEN <<>> ELSE Split(table[1], ",")
        col == {c \in 1..Len(columns) : columns[c] = <<"Sample_ID">>}
    IN  IF table = <<>> THEN Raise("EmptyDataError", <<>>)
        ELSE IF col = {} THEN Raise("KeyError", <<>>)
        ELSE LET c == CHOOSE k \in col : \A j \in col : k <= j
             IN  Return([r \in 1..(Len(table) - 1) |->
                            LET f == Split(table[r + 1], ",")
                            IN  IF c <= Len(f) THEN f[c] ELSE <<"nan">>])

----------------------------------------------------------------------------
(* BaseMountRun: log directory, InterOp, sample directories *)

NoLogDir == [at |-> None, sample |-> NoName]

RECURSIVE FirstAppSessionLogs(_)
FirstAppSessionLogs(folders) ==
    IF folders = <<>> THEN NoLogDir
    ELSE IF is_dir(Head(folders).applogs)
         THEN [at |-> "ParentAppSession/Logs", sample |-> Head(folders).name]
         ELSE FirstAppSessionLogs(Tail(folders))

get_log_dir(rd) ==
    IF exists(rd.logs) THEN [at |-> "Logs", sample |-> NoName]
    ELSE FirstAppSessionLogs(rd.outsamples)

\* log_dir.glob("*"): the entries of the adopted log directory, in the order
\* the mount lists them (none when it is no directory)
LogDirListing(rd, log_dir) ==
    IF log_dir.at = "Logs" /\ ~is_dir(rd.logs) THEN <<>> ELSE rd.logfiles

Hidden(name) == name # <<>> /\ Head(name) = "."

get_log_files(rd, log_dir) ==
    IF log_dir = NoLogDir THEN <<>>
    ELSE SelectSeq(LogDirListing(rd, log_dir), LAMBDA f : ~Hidden(f.name))

get_stats_json(rd, log_dir) ==
    IF \E f \in Range(LogDirListing(rd, log_dir)) : f.name = <<"Stats.json">>
    THEN "Stats.json" ELSE None

get_interop_dir(rd) == IF is_dir(rd.interop.kind) THEN "Files/InterOp" ELSE None

get_interop_files(rd) ==
    SelectSeq(SelectSeq(rd.interop.files, LAMBDA f : is_file(f.kind)),
              LAMBDA f : ~Hidden(f.name))

\* glob("Sample.*") under the Run directory
GlobSample(children) == SelectSeq(children, LAMBDA e : e.name # <<>> /\ Head(e.name) = "Sample.")

\* A variant: Properties/Output.Samples is searched as well, whatever the Run
\* directory holds
get_sample_dirs_both_places(rd) ==
    LET sample_dirs == GlobSample(rd.children)
                       \o SelectSeq(rd.outsamples, LAMBDA e : e.props.present)
        kept == SelectSeq(sample_dirs, LAMBDA e : ~Contains("Undetermined", e.name))
    IN  SelectSeq(kept, LAMBDA e : e.isdir)

get_sample_dirs(rd) ==
    LET primary == GlobSample(rd.children)
        sample_dirs == IF Len(primary) = 0
                       THEN SelectSeq(rd.outsamples, LAMBDA e : e.props.present)
                       ELSE primary
        kept == SelectSeq(sample_dirs, LAMBDA e : ~Contains("Undetermined", e.name))
    IN  SelectSeq(kept, LAMBDA e : e.isdir)

\* A variant: a list of pairs, every pair appended
ListAppend(d, k, v) == Append(d, [key |-> k, val |-> v])

\* dict[key] = val of an insertion-ordered dict: a key already present keeps its place
DictPut(d, k, v) ==
    IF \E i \in 1..Len(d) : d[i].key = k
    THEN [i \in 1..Len(d) |-> IF d[i].key = k THEN [key |-> k, val |-> v] ELSE d[i]]
    ELSE Append(d, [key |-> k, val |-> v])

\* The loop over the lines of a SampleProperties file in get_sample_id_dict
RECURSIVE ReadSampleProperties(_, _)
ReadSampleProperties(lines, acc) ==
    IF lines = <<>> THEN Return(acc)
    ELSE LET line == Head(lines)
             f == Split1(line, " ")
         IN  IF Contains("Name:", line)
             THEN IF Len(f) < 2 THEN Raise("IndexError", acc)
                  ELSE ReadSampleProperties(Tail(lines), [acc EXCEPT !.sample_name = Strip(f[2])])
             ELSE IF Contains("SampleId:", line)
             THEN IF Len(f) < 2 THEN Raise("IndexError", acc)
                  ELSE ReadSampleProperties(Tail(lines), [acc EXCEPT !.sample_id = Strip(f[2])])
             ELSE ReadSampleProperties(Tail(lines), acc)

RECURSIVE get_sample_id_dict_loop(_, _)
get_sample_id_dict_loop(sample_dirs, d) ==
    IF sample_dirs = <<>> THEN Return(d)
    ELSE LET sample_dir == Head(sample_dirs)
             none == [sample_id |-> NoName, sample_name |-> NoName]
             p == IF sample_dir.props.present
                  THEN ReadSampleProperties(sample_dir.props.lines, none)
                  ELSE Return(none)
         IN  IF ~p.ok THEN Raise(p.err, d)
             ELSE get_sample_id_dict_loop(
                      Tail(sample_dirs),
                      DictPut(d, p.val.sample_id,
                              [sample_dir |-> sample_dir, sample_name |-> p.val.sample_name]))

get_sample_id_dict(sample_dirs) == get_sample_id_dict_loop(sample_dirs, <<>>)

----------------------------------------------------------------------------
(* BaseMountSample *)

\* fastq_dir.glob("*<marker>*")
GlobReads(sample_dir, marker) == {f \in Range(sample_dir.files) : Contains(marker, f.name)}

\* validate_fastq_in_sample_dir: TRUE when no assertion fails
validate_fastq_in_sample_dir(sample_dir) ==
    LET r1 == GlobReads(sample_dir, "_R1_")
        r2 == GlobReads(sample_dir, "_R2_")
    IN  /\ Cardinality(r1) = 1
        /\ Cardinality(r2) = 1
        /\ \A f \in r1 : is_file(f.kind)
        /\ \A f \in r2 : is_file(f.kind)

PathOf(sample_dir, f) == [dir |-> sample_dir.name, name |-> f.name]

\* get_reads: the first match of each glob
get_reads(sample_dir) ==
    [r1 |-> PathOf(sample_dir, CHOOSE f \in GlobReads(sample_dir, "_R1_") : TRUE),
     r2 |-> PathOf(sample_dir, CHOOSE f \in GlobReads(sample_dir, "_R2_") : TRUE)]

\* BaseMountSample.__post_init__: the object is built whether or not the reads validate
BaseMountSample(sample_id, metadata) ==
    LET valid == validate_fastq_in_sample_dir(metadata.sample_dir)
        reads == IF valid THEN get_reads(metadata.sample_dir)
                 ELSE [r1 |-> NoPath, r2 |-> NoPath]
    IN  [sample_id |-> sample_id,
         sample_name |-> metadata.sample_name,
         sample_dir |-> metadata.sample_dir.name,
         r1 |-> reads.r1,
         r2 |-> reads.r2]

\* generate_sample_objects: one object per entry of sample_id_dict, in its order
generate_sample_objects(sample_id_dict) ==
    [i \in 1..Len(sample_id_dict) |->
        BaseMountSample(sample_id_dict[i].key, sample_id_dict[i].val)]

\* The errors BaseMountSample.__post_init__ logs
SampleErrors(sample_id_dict) ==
    {<<"ERROR: Could not validate FASTQ files", sample_id_dict[i].key>> :
        i \in {k \in 1..Len(sample_id_dict) :
                  ~validate_fastq_in_sample_dir(sample_id_dict[k].val.sample_dir)}}

----------------------------------------------------------------------------
(* BaseMountRun.__post_init__ *)

\* A variant: the identity of a Run taken from its sample sheet
run_id_from_sheet(rd) == extract_experiment_name(rd.sheet).val

\* self.run_id = self.run_dir.name
run_id_from(rd) == rd.name

\* A variant: the declared ids that were not resolved
declared_not_resolved(sample_objects, samplesheet_samples) ==
    Range(samplesheet_samples) \ {sample_objects[i].sample_id : i \in 1..Len(sample_objects)}

\* set(sample_object_ids) - set(samplesheet_samples)
difference_list(sample_objects, samplesheet_samples) ==
    {sample_objects[i].sample_id : i \in 1..Len(sample_objects)} \ Range(samplesheet_samples)

\* A Run object (BaseMountRun or BaseMountNextSeqRun); NoRun where there is none
NoRun ==
    [class |-> None, run_id |-> NoName, experiment_name |-> NoName,
     log_dir |-> NoLogDir, samplesheet |-> None, samplesheet_samples |-> <<>>,
     interop_dir |-> None, interop_files_set |-> FALSE, interop_files |-> <<>>,
     sample_dirs |-> <<>>, sample_id_dict |-> <<>>, sample_objects |-> <<>>,
     difference_list |-> {}, runinfoxml |-> None, runparametersxml |-> None,
     stats_json |-> None, logfiles_set |-> FALSE, logfiles |-> <<>>,
     nextseq_samples |-> <<>>]

Failed(e) == [ok |-> FALSE, err |-> e, obj |-> NoRun, log |-> {}]

\* BaseMountRun(run_dir=rd, experiment_name=experiment_name); experiment_name is
\* NoName when the caller leaves it out (project mode)
BaseMountRun(rd, experiment_name) ==
    LET log_dir == get_log_dir(rd)
        samplesheet == get_samplesheet(rd)
        name == IF experiment_name = NoName THEN extract_experiment_name(rd.sheet)
                ELSE Return(experiment_name)
        samplesheet_samples == parse_samplesheet(rd.sheet)
        interop_dir == get_interop_dir(rd)
        sample_dirs == get_sample_dirs(rd)
        sample_id_dict == get_sample_id_dict(sample_dirs)
        sample_objects == generate_sample_objects(sample_id_dict.val)
        diff == difference_list(sample_objects, samplesheet_samples.val)
        runinfoxml == get_runinfoxml(rd)
        runparametersxml == get_runparametersxml(rd)
    IN  IF ~samplesheet.ok THEN Failed(samplesheet.err)
        ELSE IF ~name.ok THEN Failed(name.err)
        ELSE IF ~samplesheet_samples.ok THEN Failed(samplesheet_samples.err)
        ELSE IF ~sample_id_dict.ok THEN Failed(sample_id_dict.err)
        ELSE [ok |-> TRUE, err |-> "none",
              obj |-> [class |-> "BaseMountRun",
                       run_id |-> run_id_from(rd),
                       experiment_name |-> name.val,
                       log_dir |-> log_dir,
                       samplesheet |-> samplesheet.val,
                       samplesheet_samples |-> samplesheet_samples.val,
                       interop_dir |-> interop_dir,
                       interop_files_set |-> interop_dir # None,
                       interop_files |-> IF interop_dir # None THEN get_interop_files(rd) ELSE <<>>,
                       sample_dirs |-> [i \in 1..Len(sample_dirs) |-> sample_dirs[i].name],
                       sample_id_dict |-> [i \in 1..Len(sample_id_dict.val) |->
                                              [key |-> sample_id_dict.val[i].key,
                                               sample_dir |-> sample_id_dict.val[i].val.sample_dir.name]],
                       sample_objects |-> sample_objects,
                       difference_list |-> diff,
                       runinfoxml |-> runinfoxml,
                       runparametersxml |-> runparametersxml,
                       stats_json |-> IF log_dir # NoLogDir THEN get_stats_json(rd, log_dir) ELSE None,
                       logfiles_set |-> log_dir # NoLogDir,
                       logfiles |-> IF log_dir # NoLogDir THEN get_log_files(rd, log_dir) ELSE <<>>,
                       nextseq_samples |-> <<>>],
              log |-> SampleErrors(sample_id_dict.val)
                      \cup (IF log_dir = NoLogDir
                            THEN {<<"ERROR: Could not find any log directory", rd.name>>} ELSE {})
                      \cup (IF diff # {} THEN {<<"WARNING: discrepancies", rd.name>>} ELSE {})
                      \cup (IF runinfoxml = None
                            THEN {<<"WARNING: Could not locate RunInfo.xml", rd.name>>} ELSE {})
                      \cup (IF runparametersxml = None
                            THEN {<<"WARNING: Could not locate RunParameters.xml", rd.name>>} ELSE {})]

----------------------------------------------------------------------------
(* BaseMountNextSeqRun *)

Slots == <<"R1_L1", "R2_L1", "R1_L2", "R2_L2", "R1_L3", "R2_L3", "R1_L4", "R2_L4">>

\* The marker grab_nextseq_fastq_files looks for, and the suffix of the renamed
\* copy, of each slot
SlotMarker ==
    [R1_L1 |-> "L001_R1", R2_L1 |-> "L001_R2", R1_L2 |-> "L002_R1", R2_L2 |-> "L002_R2",
     R1_L3 |-> "L003_R1", R2_L3 |-> "L003_R2", R1_L4 |-> "L004_R1", R2_L4 |-> "L004_R2"]

SlotSuffix ==
    [R1_L1 |-> "_L001_R1.fastq.gz", R2_L1 |-> "_L001_R2.fastq.gz",
     R1_L2 |-> "_L002_R1.fastq.gz", R2_L2 |-> "_L002_R2.fastq.gz",
     R1_L3 |-> "_L003_R1.fastq.gz", R2_L3 |-> "_L003_R2.fastq.gz",
     R1_L4 |-> "_L004_R1.fastq.gz", R2_L4 |-> "_L004_R2.fastq.gz"]

\* The slot of a file name: the first marker of the if/elif chain it holds
SlotOf(name) ==
    LET hit == {k \in 1..Len(Slots) : Contains(SlotMarker[Slots[k]], name)}
    IN  IF hit = {} THEN None ELSE Slots[CHOOSE k \in hit : \A j \in hit : k <= j]

\* grab_nextseq_fastq_files: slot -> the last file holding its marker; a slot
\* without a file is a missing key (NoPath); None (ok = FALSE) without any file
RECURSIVE grab_loop(_, _, _)
grab_loop(sample_dir, files, d) ==
    IF files = <<>> THEN d
    ELSE LET f == Head(files)
             k == SlotOf(f.name)
         IN  grab_loop(sample_dir, Tail(files),
                       IF k = None THEN d ELSE [d EXCEPT ![k] = PathOf(sample_dir, f)])

grab_nextseq_fastq_files(sample_dir) ==
    IF Len(sample_dir.files) < 1 THEN Raise("None", [k \in Range(Slots) |-> NoPath])
    ELSE Return(grab_loop(sample_dir, sample_dir.files, [k \in Range(Slots) |-> NoPath]))

\* line.split(': ')[1] of a line holding at most one ': '
AfterColon(line) ==
    LET at == {i \in 1..(Len(line) - 1) :
                  /\ line[i] \in {"Name:", "SampleId:", "SampleNumber:", "NumReadsRaw:",
                                 "NumReadsPF:", ":"}
                  /\ line[i + 1] = " "}
    IN  IF at = {} THEN Raise("IndexError", NoName)
        ELSE Return(SubSeq(line, (CHOOSE i \in at : \A j \in at : i <= j) + 2, Len(line)))

\* parse_sample_properties: keys left out of the dict are NoName
RECURSIVE parse_sample_properties_loop(_, _)
parse_sample_properties_loop(lines, acc) ==
    IF lines = <<>> THEN Return(acc)
    ELSE LET line == Strip(Head(lines))
             v == AfterColon(line)
         IN  IF Contains("Name", line)
             THEN IF ~v.ok THEN Raise(v.err, acc)
                  ELSE parse_sample_properties_loop(Tail(lines), [acc EXCEPT !.sample_name = v.val])
             ELSE IF Contains("SampleId", line)
             THEN IF ~v.ok THEN Raise(v.err, acc)
                  ELSE parse_sample_properties_loop(Tail(lines), [acc EXCEPT !.sample_id = v.val])
             ELSE IF \/ Contains("SampleNumber", line)
                     \/ Contains("NumReadsRaw", line)
                     \/ Contains("NumReadsPF", line)
             THEN IF ~v.ok THEN Raise(v.err, acc)
                  ELSE parse_sample_properties_loop(Tail(lines), acc)
             ELSE parse_sample_properties_loop(Tail(lines), acc)

parse_sample_properties(lines) ==
    parse_sample_properties_loop(lines, [sample_id |-> NoName, sample_name |-> NoName])

\* One iteration of generate_nextseq_samples: the sample appended, or nothing
NextSeqSampleOf(sample_dir) ==
    LET sample_properties == parse_sample_properties(sample_dir.props.lines)
        fastq_file_dict == grab_nextseq_fastq_files(sample_dir)
    IN  IF ~sample_dir.props.present THEN <<>>
        ELSE IF ~sample_properties.ok THEN <<>>
        ELSE IF \/ sample_properties.val.sample_id = NoName      \* KeyError
                \/ sample_properties.val.sample_name = NoName    \* KeyError
                \/ ~fastq_file_dict.ok                           \* TypeError: None['R1_L1']
                \/ \E k \in Range(Slots) : fastq_file_dict.val[k] = NoPath   \* KeyError
             THEN <<>>
        ELSE << [sample_id |-> sample_properties.val.sample_id,
                 sample_name |-> sample_properties.val.sample_name,
                 sample_dir |-> sample_dir.name,
                 reads |-> fastq_file_dict.val] >>

RECURSIVE generate_nextseq_samples(_)
generate_nextseq_samples(sample_directories) ==
    IF sample_directories = <<>> THEN <<>>
    ELSE NextSeqSampleOf(Head(sample_directories))
             \o generate_nextseq_samples(Tail(sample_directories))

IsBin(name) == name # <<>> /\ name[Len(name)] = ".bin"

\* BaseMountNextSeqRun(run_dir=rd, experiment_name=rd.name); quit() is SystemExit
BaseMountNextSeqRun(rd) ==
    LET sample_directories == SelectSeq(rd.outsamples, LAMBDA e : e.isdir)
    IN  IF Len(sample_directories) < 1 THEN Failed("SystemExit")
        ELSE [ok |-> TRUE, err |-> "none",
              obj |-> [NoRun EXCEPT
                         !.class = "BaseMountNextSeqRun",
                         !.run_id = run_id_from(rd),
                         !.experiment_name = rd.name,
                         !.runparametersxml = "Files/RunParameters.xml",
                         !.runinfoxml = "Files/RunInfo.xml",
                         !.interop_dir = "Files/InterOp",
                         !.interop_files_set = TRUE,
                         !.interop_files = IF is_dir(rd.interop.kind)
                                           THEN SelectSeq(rd.interop.files, LAMBDA f : IsBin(f.name))
                                           ELSE <<>>,
                         !.sample_dirs = [i \in 1..Len(sample_directories) |->
                                             sample_directories[i].name],
                         !.nextseq_samples = generate_nextseq_samples(sample_directories)],
              log |-> {<<"WARNING: skipping sample", sample_directories[i].name>> :
                          i \in {k \in 1..Len(sample_directories) :
                                    NextSeqSampleOf(sample_directories[k]) = <<>>}}]

----------------------------------------------------------------------------
(* The output tree and the copy functions *)

Root == <<".">>       \* out_dir itself, as the output directory of a single Run

BaseCalls == "Data/Intensities/BaseCalls"

base_folders ==
    {"Config", BaseCalls, "Images", "InterOp", "Logs", "Recipes", "Thumbnail_Images"}

NoDir == [exists |-> FALSE, dirs |-> {}, files |-> {}]
EmptyDir == [exists |-> TRUE, dirs |-> {}, files |-> {}]

\* A variant of the skeleton: the directory is made anew, and what was there is gone
recreate_run_folder(o) ==
    [exists |-> TRUE, dirs |-> base_folders \cup {"Data", "Data/Intensities"}, files |-> {}]

\* create_run_folder_skeleton: mkdir(exist_ok=True), then mkdir(parents=True,
\* exist_ok=True) of each base folder; what is there stays
create_run_folder_skeleton(o) ==
    [o EXCEPT !.exists = TRUE,
              !.dirs = @ \cup base_folders \cup {"Data", "Data/Intensities"}]

SrcMode == "src"      \* the permission bits shutil.copy takes over from the source
Mode666 == "0o666"

\* A sequence of copies: the directory so far, the copies made, the exception
\* raised, the source paths altered
Begin(o, n) == [o |-> o, n |-> n, err |-> "none", touched |-> {}]

\* A variant of the copy: shutil.move(src, out_dir / dir / name), which takes the
\* source file away
move_not_copy(st, src, kind, dir, name) ==
    IF st.err # "none" THEN st
    ELSE IF kind = "absent" THEN [st EXCEPT !.err = "FileNotFoundError"]
    ELSE IF kind = "dir" THEN [st EXCEPT !.err = "IsADirectoryError"]
    ELSE IF ~st.o.exists \/ (dir # "" /\ dir \notin st.o.dirs)
         THEN [st EXCEPT !.err = "FileNotFoundError"]
    ELSE [st EXCEPT !.o.files = {f \in @ : ~(f.dir = dir /\ f.name = name)}
                                  \cup {[dir |-> dir, name |-> name, src |-> src, mode |-> SrcMode]},
                    !.n = @ + 1,
                    !.touched = @ \cup {src}]

\* shutil.copy(src, out_dir / dir / name): src is a source path of kind `kind`;
\* the source is read, the destination is written
Copy(st, src, kind, dir, name) ==
    IF st.err # "none" THEN st
    ELSE IF kind = "absent" THEN [st EXCEPT !.err = "FileNotFoundError"]
    ELSE IF kind = "dir" THEN [st EXCEPT !.err = "IsADirectoryError"]
    ELSE IF ~st.o.exists \/ (dir # "" /\ dir \notin st.o.dirs)
         THEN [st EXCEPT !.err = "FileNotFoundError"]
    ELSE [st EXCEPT !.o.files = {f \in @ : ~(f.dir = dir /\ f.name = name)}
                                  \cup {[dir |-> dir, name |-> name, src |-> src, mode |-> SrcMode]},
                    !.n = @ + 1]

\* A variant of the permission change: os.chmod(out_dir / dir / name, 0o775),
\* which leaves the execute bits set
chmod_775(st, dir, name) ==
    IF st.err # "none" THEN st
    ELSE IF ~\E f \in st.o.files : f.dir = dir /\ f.name = name
         THEN [st EXCEPT !.err = "FileNotFoundError"]
    ELSE [st EXCEPT !.o.files = {IF f.dir = dir /\ f.name = name
                                 THEN [f EXCEPT !.mode = "0o775"] ELSE f : f \in @}]

\* os.chmod(out_dir / dir / name, 0o666)
Chmod(st, dir, name) ==
    IF st.err # "none" THEN st
    ELSE IF ~\E f \in st.o.files : f.dir = dir /\ f.name = name
         THEN [st EXCEPT !.err = "FileNotFoundError"]
    ELSE [st EXCEPT !.o.files = {IF f.dir = dir /\ f.name = name
                                 THEN [f EXCEPT !.mode = Mode666] ELSE f : f \in @}]

MetaPath(p) == [dir |-> <<"run_dir">>, name |-> <<p>>]

\* shutil_if_exists(src, dst): src is a path of the Run, or None, and str(None)
\* names no file; FileNotFoundError is swallowed
shutil_if_exists(st, p, dir, name) ==
    IF st.err # "none" THEN st
    ELSE LET r == Chmod(Copy(st, MetaPath(p), IF p = None THEN "absent" ELSE "file", dir, name),
                        dir, name)
         IN  IF r.err = "FileNotFoundError" THEN [r EXCEPT !.err = "none"] ELSE r

\* A variant: run-info and Stats.json only
copy_metadata_files_without_sheet(run_obj, st) ==
    shutil_if_exists(
        shutil_if_exists(st, run_obj.runinfoxml, "", <<"RunInfo.xml">>),
        run_obj.stats_json, "", <<"Stats.json">>)

copy_metadata_files(run_obj, st) ==
    shutil_if_exists(
        shutil_if_exists(
            shutil_if_exists(st, run_obj.samplesheet, "", <<"SampleSheet.csv">>),
            run_obj.runinfoxml, "", <<"RunInfo.xml">>),
        run_obj.stats_json, "", <<"Stats.json">>)

\* for f in files: shutil.copy(f, out_dir / dir / f.name); os.chmod(..., 0o666)
RECURSIVE copy_each(_, _, _, _)
copy_each(st, files, srcdir, dir) ==
    IF files = <<>> THEN st
    ELSE LET f == Head(files)
         IN  copy_each(Chmod(Copy(st, [dir |-> srcdir, name |-> f.name], f.kind, dir, f.name),
                             dir, f.name),
                       Tail(files), srcdir, dir)

\* copy_log_files: run_obj.logfiles is no attribute of a Run without a log directory
copy_log_files(run_obj, st) ==
    IF ~run_obj.logfiles_set THEN [st EXCEPT !.err = "AttributeError"]
    ELSE copy_each(st, run_obj.logfiles, <<"log_dir">>, "Logs")

copy_interop_files(run_obj, st) ==
    IF run_obj.interop_files_set
    THEN copy_each(st, run_obj.interop_files, <<"Files/InterOp">>, "InterOp")
    ELSE st

\* One iteration of copy_reads
copy_reads_of(sample_obj, st, rn) ==
    IF st.err # "none" THEN st
    ELSE IF rn /\ sample_obj.sample_id = NoName THEN [st EXCEPT !.err = "TypeError"]
    ELSE IF ~rn /\ (sample_obj.r1 = NoPath \/ sample_obj.r2 = NoPath)
         THEN [st EXCEPT !.err = "AttributeError"]
    ELSE LET r1_out == IF rn THEN sample_obj.sample_id \o <<"_R1.fastq.gz">>
                       ELSE sample_obj.r1.name
             r2_out == IF rn THEN sample_obj.sample_id \o <<"_R2.fastq.gz">>
                       ELSE sample_obj.r2.name
             kind(p) == IF p = NoPath THEN "absent" ELSE "file"
         IN  Chmod(Chmod(Copy(Copy(st, sample_obj.r1, kind(sample_obj.r1), BaseCalls, r1_out),
                              sample_obj.r2, kind(sample_obj.r2), BaseCalls, r2_out),
                         BaseCalls, r1_out),
                   BaseCalls, r2_out)

RECURSIVE copy_reads_loop(_, _, _)
copy_reads_loop(sample_objects, st, rn) ==
    IF sample_objects = <<>> THEN st
    ELSE copy_reads_loop(Tail(sample_objects), copy_reads_of(Head(sample_objects), st, rn), rn)

copy_reads(run_obj, st, rn) == copy_reads_loop(run_obj.sample_objects, st, rn)

\* copy_sample_properties_files: SampleProperties of each sample to Logs/<sample_id>
RECURSIVE copy_sample_properties_files(_, _)
copy_sample_properties_files(nextseq_samples, st) ==
    IF nextseq_samples = <<>> THEN st
    ELSE LET sample == Head(nextseq_samples)
             src == [dir |-> sample.sample_dir, name |-> <<"SampleProperties">>]
             r == Chmod(Copy(st, src, "file", "Logs", sample.sample_id), "Logs", sample.sample_id)
         IN  copy_sample_properties_files(
                 Tail(nextseq_samples),
                 IF st.err = "none" /\ r.err = "FileNotFoundError"
                 THEN [r EXCEPT !.err = "none"] ELSE r)

\* One iteration of copy_nextseq_reads: the eight copies, then the eight chmods
RECURSIVE copy_slots(_, _, _, _)
copy_slots(sample_obj, slots, st, rn) ==
    IF slots = <<>> THEN st
    ELSE LET k == Head(slots)
             dst == IF rn THEN sample_obj.sample_id \o <<SlotSuffix[k]>>
                    ELSE sample_obj.reads[k].name
         IN  copy_slots(sample_obj, Tail(slots),
                        Copy(st, sample_obj.reads[k], "file", BaseCalls, dst), rn)

RECURSIVE chmod_slots(_, _, _, _)
chmod_slots(sample_obj, slots, st, rn) ==
    IF slots = <<>> THEN st
    ELSE LET k == Head(slots)
             dst == IF rn THEN sample_obj.sample_id \o <<SlotSuffix[k]>>
                    ELSE sample_obj.reads[k].name
         IN  chmod_slots(sample_obj, Tail(slots), Chmod(st, BaseCalls, dst), rn)

RECURSIVE copy_nextseq_reads_loop(_, _, _)
copy_nextseq_reads_loop(nextseq_samples, st, rn) ==
    IF nextseq_samples = <<>> THEN st
    ELSE copy_nextseq_reads_loop(
             Tail(nextseq_samples),
             chmod_slots(Head(nextseq_samples), Slots,
                         copy_slots(Head(nextseq_samples), Slots, st, rn), rn),
             rn)

copy_nextseq_reads(run_obj, st, rn) == copy_nextseq_reads_loop(run_obj.nextseq_samples, st, rn)

\* The five calls that materialize a Run (standard entry points), from the
\* directory o with n copies made so far
MaterializeRun(run_obj, o, n, rn) ==
    copy_reads(run_obj,
        copy_interop_files(run_obj,
            copy_log_files(run_obj,
                copy_metadata_files(run_obj,
                    Begin(create_run_folder_skeleton(o), n)))),
        rn)

----------------------------------------------------------------------------
(* The mounted tree: the shapes the specifications draw Run directories from *)

SampleIds == {"S1", "S2", "S3"}

RunToken == <<"1", "2", "3", "4">>
RunName(i) == <<"FASTQ_", RunToken[i]>>
OutNames == {Root} \cup {RunName(i) : i \in 1..MaxRuns}

SeqsUpTo(S, n) == UNION {[1..k -> S] : k \in 0..n}
Injective(s) == \A i, j \in 1..Len(s) : s[i] = s[j] => i = j

File(name) == [name |-> name, kind |-> "file"]
Dir(name) == [name |-> name, kind |-> "dir"]

R1(id) == File(<<id, "_L001_R1_", "001.fastq.gz">>)
R2(id) == File(<<id, "_L001_R2_", "001.fastq.gz">>)
R1again(id) == File(<<id, "_L001_R1_", "002.fastq.gz">>)
R2again(id) == File(<<id, "_L001_R2_", "002.fastq.gz">>)

\* The Files area of a sample directory, by shape
FilesOf(id, shape) ==
    CASE shape = "paired" -> <<R1(id), R2(id)>>
      [] shape = "no_r1"  -> <<R2(id)>>
      [] shape = "two_r1" -> <<R1(id), R1again(id), R2(id)>>
      [] shape = "no_r2"  -> <<R1(id)>>
      [] shape = "two_r2" -> <<R1(id), R2(id), R2again(id)>>
      [] shape = "r1_dir" -> <<Dir(<<id, "_L001_R1_", "001.fastq.gz">>), R2(id)>>
      [] shape = "empty"  -> <<>>

FileShapes == {"paired", "no_r1", "two_r1", "no_r2", "two_r2", "r1_dir", "empty"}
Paired(shape) == shape = "paired"

SampleProperties(id) ==
    [present |-> TRUE,
     lines |-> << <<"Name:", " ", id, "-name", "NL">>, <<"SampleId:", " ", id, "NL">>,
                  <<"NumReadsRaw:", " ", "1000", "NL">> >>]
NoSampleProperties == [present |-> FALSE, lines |-> <<>>]

\* A sample directory Sample.<id> of a Run
SampleDir(id, shape) ==
    [name |-> <<"Sample.", id>>, isdir |-> TRUE, props |-> SampleProperties(id),
     files |-> FilesOf(id, shape), applogs |-> "absent"]

\* An entry <id> of Properties/Output.Samples
OutputSample(id, files, applogs) ==
    [name |-> <<id>>, isdir |-> TRUE, props |-> SampleProperties(id),
     files |-> files, applogs |-> applogs]

\* A sample sheet: the header lines, then the data section declaring ids
DataSection(ids) ==
    << <<"[Data]", "NL">>,
       <<"Sample_ID", ",", "Sample_Name", ",", "Sample_Project", ",", "Description", "NL">> >>
    \o [i \in 1..Len(ids) |-> <<ids[i], ",", ids[i], "-name", ",", "prj", ",", "NL">>]

Header(exp) ==
    << <<"[Header]", "NL">>,
       <<"Experiment Name", ",", exp, "NL">>,
       <<"Workflow", ",", "GenerateFASTQ", "NL">> >>

Sheet(exp, ids) == Header(exp) \o DataSection(ids)

LogFiles == << File(<<"Stats.json">>), File(<<"run.log">>), File(<<".", "hidden">>) >>
InterOpFiles == << File(<<"QMetricsOut", ".bin">>), File(<<".", "DS_Store">>), Dir(<<"C1.1">>) >>

\* A Run directory of the usual layout, every artifact in its first place
BaseRun(i) ==
    [name |-> RunName(i),
     ss |-> <<"file", "absent", "absent">>,
     ri |-> <<"file", "absent", "absent">>,
     rp |-> <<"file", "absent">>,
     sheet |-> Sheet("exp", <<"S1", "S2">>),
     logs |-> "dir",
     logfiles |-> LogFiles,
     interop |-> [kind |-> "dir", files |-> InterOpFiles],
     children |-> <<SampleDir("S1", "paired"), SampleDir("S2", "paired")>>,
     outsamples |-> <<>>]

\* The Run directories a project is drawn from
RunShapes == {"good", "no_sheet", "unpaired", "no_logs", "no_name", "output_samples", "no_samples"}

RunOf(i, shape) ==
    CASE shape = "good" -> BaseRun(i)
      [] shape = "no_sheet" -> [BaseRun(i) EXCEPT !.ss = <<"absent", "dir", "absent">>]
      [] shape = "unpaired" ->
            [BaseRun(i) EXCEPT !.children = <<SampleDir("S1", "paired"), SampleDir("S2", "no_r1"),
                                              SampleDir("S3", "paired")>>]
      [] shape = "no_logs" -> [BaseRun(i) EXCEPT !.logs = "absent", !.logfiles = <<>>]
      [] shape = "no_name" -> [BaseRun(i) EXCEPT !.sheet = <<<<"[Header]", "NL">>>>]
      [] shape = "output_samples" ->
            [BaseRun(i) EXCEPT !.ss = <<"absent", "file", "absent">>,
                               !.ri = <<"absent", "absent", "file">>,
                               !.rp = <<"absent", "absent">>,
                               !.logs = "absent",
                               !.interop = [kind |-> "absent", files |-> <<>>],
                               !.children = <<>>,
                               !.outsamples =
                                   <<OutputSample("S1", FilesOf("S1", "paired"), "absent"),
                                     OutputSample("S3", FilesOf("S3", "paired"), "dir"),
                                     [OutputSample("Undetermined", <<>>, "absent")
                                        EXCEPT !.name = <<"Undetermined">>]>>]
      [] shape = "no_samples" -> [BaseRun(i) EXCEPT !.children = <<>>]

\* The sample directories of a single Run: distinct ids in any order, each of any shape
RunSampleShapes == {"paired", "no_r1", "two_r1", "no_r2"}
SampleLists ==
    UNION { { [i \in 1..Len(ids) |-> SampleDir(ids[i], shp[i])] :
                shp \in [1..Len(ids) -> RunSampleShapes] } :
            ids \in {s \in SeqsUpTo(SampleIds, Cardinality(SampleIds)) : Injective(s)} }

DeclaredLists == { <<>>, <<"S1", "S2">>, <<"S1", "S2", "S3">> }

\* The Files area of a NextSeq sample: all eight lanes, one missing, one twice, none
LaneToken ==
    <<"_L001_R1_", "_L001_R2_", "_L002_R1_", "_L002_R2_",
      "_L003_R1_", "_L003_R2_", "_L004_R1_", "_L004_R2_">>
NextSeqFile(id, k) == File(<<id, LaneToken[k], "001.fastq.gz">>)
NextSeqFiles(id, shape) ==
    CASE shape = "complete" -> [k \in 1..8 |-> NextSeqFile(id, k)]
      [] shape = "underfilled" -> [k \in 1..7 |-> NextSeqFile(id, k)]
      [] shape = "overfilled" ->
            [k \in 1..8 |-> NextSeqFile(id, k)] \o <<File(<<id, LaneToken[1], "002.fastq.gz">>)>>
      [] shape = "empty" -> <<>>
NextSeqShapes == {"complete", "underfilled", "overfilled", "empty"}

NextSeqSampleLists ==
    UNION { { [i \in 1..Len(ids) |-> OutputSample(ids[i], NextSeqFiles(ids[i], shp[i]), "absent")] :
                shp \in [1..Len(ids) -> NextSeqShapes] } :
            ids \in {s \in SeqsUpTo(SampleIds, 2) : Injective(s)} }
    \cup { << OutputSample("S1", NextSeqFiles("S1", "complete"), "absent"),
              [OutputSample("S1", NextSeqFiles("S1", "complete"), "absent")
                 EXCEPT !.name = <<"S1", "-requeue">>] >> }

----------------------------------------------------------------------------
(* The command line *)

\* --project-dir and --run-dir: None, or the name of the parent of the path given
Args ==
    [project_dir : {None, "Projects", "Elsewhere"},
     run_dir : {None, "Runs", "Elsewhere"},
     nextseq : BOOLEAN]

NoArgs == [project_dir |-> None, run_dir |-> None, nextseq |-> FALSE]

\* cli: input validation, then the entry point called ("rejected": quit())
cli(a) ==
    IF a.project_dir # None /\ a.run_dir # None THEN "rejected"
    ELSE IF a.project_dir = None /\ a.run_dir = None THEN "rejected"
    ELSE IF a.project_dir # None /\ a.project_dir # "Projects" THEN "rejected"
    ELSE IF a.run_dir # None /\ a.run_dir # "Runs" THEN "rejected"
    ELSE IF a.project_dir # None THEN "project"
    ELSE IF a.nextseq THEN "nextseq"
    ELSE "run"

----------------------------------------------------------------------------
(* Initial states: the command has not run yet *)

NoCopies == [d \in OutNames |-> 0]
NoResult == [fn |-> None]

Idle ==
    /\ pc = "idle" /\ ri = 1 /\ idx = 1 /\ run_objects = <<>> /\ cur = NoRun
    /\ err = "none" /\ copies = NoCopies /\ start = out /\ calls = 0 /\ log = {}
    /\ ret = NoResult
    /\ partial = {} /\ touched = {}

\* A project of up to MaxRuns Run directories; a Run's output directory may
\* already be there, empty
InitProject ==
    /\ \E n \in BOOLEAN : argv = [project_dir |-> "Projects", run_dir |-> None, nextseq |-> n]
    /\ mode = "project"
    /\ rename \in BOOLEAN
    /\ \E shapes \in SeqsUpTo(RunShapes, MaxRuns) :
           mount = [i \in 1..Len(shapes) |-> RunOf(i, shapes[i])]
    /\ \E there \in SUBSET {RunName(i) : i \in 1..MaxRuns} :
           out = [d \in OutNames |-> IF d \in there THEN EmptyDir ELSE NoDir]
    /\ Idle

\* A single Run with any list of sample directories
InitRun ==
    /\ argv = [project_dir |-> None, run_dir |-> "Runs", nextseq |-> FALSE]
    /\ mode = "run"
    /\ rename \in BOOLEAN
    /\ \E samples \in SampleLists, declared \in DeclaredLists, logs \in {"dir", "absent"} :
           mount = << [BaseRun(1) EXCEPT !.children = samples,
                                         !.sheet = Sheet("exp", declared),
                                         !.logs = logs] >>
    /\ \E o \in {NoDir, EmptyDir} : out = [d \in OutNames |-> IF d = Root THEN o ELSE NoDir]
    /\ Idle

\* A single NextSeq Run
InitNextSeq ==
    /\ argv = [project_dir |-> None, run_dir |-> "Runs", nextseq |-> TRUE]
    /\ mode = "nextseq"
    /\ rename \in BOOLEAN
    /\ \E samples \in NextSeqSampleLists :
           mount = << [BaseRun(1) EXCEPT !.children = <<>>, !.outsamples = samples] >>
    /\ \E o \in {NoDir, EmptyDir} : out = [d \in OutNames |-> IF d = Root THEN o ELSE NoDir]
    /\ Idle

\* A single Run, complete but for any subset of its optional artifacts
OptionalArtifacts == {"run-info", "run-parameters", "interop", "logs"}

InitOptional ==
    /\ argv = [project_dir |-> None, run_dir |-> "Runs", nextseq |-> FALSE]
    /\ mode = "run"
    /\ rename \in BOOLEAN
    /\ \E absent \in SUBSET OptionalArtifacts :
           mount = << [BaseRun(1) EXCEPT
                         !.ri = IF "run-info" \in absent THEN [i \in 1..Len(@) |-> "absent"] ELSE @,
                         !.rp = IF "run-parameters" \in absent
                                THEN [i \in 1..Len(@) |-> "absent"] ELSE @,
                         !.interop = IF "interop" \in absent
                                     THEN [kind |-> "absent", files |-> <<>>] ELSE @,
                         !.logs = IF "logs" \in absent THEN "absent" ELSE @] >>
    /\ \E o \in {NoDir, EmptyDir} : out = [d \in OutNames |-> IF d = Root THEN o ELSE NoDir]
    /\ Idle

\* A command line that the input validation turns down
InitRejected ==
    /\ mode = "rejected"
    /\ argv \in {a \in Args : cli(a) = "rejected"}
    /\ rename \in BOOLEAN
    /\ mount = << BaseRun(1) >>
    /\ \E o \in {NoDir, EmptyDir} : out = [d \in OutNames |-> IF d = Root THEN o ELSE NoDir]
    /\ Idle

Init == InitProject \/ InitRun \/ InitNextSeq \/ InitOptional \/ InitRejected

\* A Run directory with any combination of kinds at the places of its metadata
InitLocate ==
    /\ argv = NoArgs
    /\ mode = "locate"
    /\ rename = FALSE
    /\ \E ss \in [1..Len(SampleSheetCandidates) -> Kinds],
          rinfo \in [1..Len(RunInfoCandidates) -> Kinds],
          rp \in [1..Len(RunParametersCandidates) -> Kinds] :
           mount = << [BaseRun(1) EXCEPT !.ss = ss, !.ri = rinfo, !.rp = rp] >>
    /\ out = [d \in OutNames |-> NoDir]
    /\ Idle

\* The lines a sample sheet header is drawn from
HeaderLines ==
    { <<"[Header]", "NL">>,
      <<"Experiment Name", ",", " ", "run_a", " ", "NL">>,
      <<"Description", ",", "desc_b", "NL">>,
      <<"Workflow", ",", "GenerateFASTQ", "NL">>,
      <<"Investigator Name", ",", "lab", "NL">> }

\* A sample sheet of up to MaxLines header lines, with or without a data section
InitSheet ==
    /\ argv = NoArgs
    /\ mode = "sheet"
    /\ rename = FALSE
    /\ \E header \in SeqsUpTo(HeaderLines, MaxLines),
          data \in {<<>>, DataSection(<<"S1">>)} :
           mount = << [BaseRun(1) EXCEPT !.sheet = header \o data] >>
    /\ out = [d \in OutNames |-> NoDir]
    /\ Idle

----------------------------------------------------------------------------
(* The entry points *)

\* The output directory of the Run being materialized
OutDirOf(run_obj) == IF mode = "project" THEN run_obj.run_id ELSE Root

CanInvoke == pc \in {"idle", "done", "failed", "exited", "killed"} /\ calls < MaxCalls

\* cli: the input validation logs an error and calls quit()
CliReject ==
    /\ cli(argv) = "rejected" /\ CanInvoke
    /\ calls' = calls + 1
    /\ start' = out
    /\ ri' = 1 /\ idx' = 1 /\ run_objects' = <<>> /\ cur' = NoRun
    /\ copies' = NoCopies
    /\ log' = {<<"ERROR: input validation", NoName>>}
    /\ err' = "SystemExit"
    /\ pc' = "exited"
    /\ UNCHANGED <<mode, rename, mount, out, ret, argv, partial, touched>>

\* The exit status of the process: an uncaught exception ends it with 1;
\* quit() raises SystemExit(None), which ends it with 0, as does returning
exit_status ==
    IF pc = "failed" /\ err # "SystemExit" THEN 1
    ELSE IF pc = "killed" THEN 143
    ELSE 0

\* retrieve_project_contents_from_basemount, up to BaseMountProject(...)
InvokeProject ==
    /\ mode = "project" /\ cli(argv) = "project" /\ CanInvoke
    /\ calls' = calls + 1
    /\ out' = [out EXCEPT ![Root].exists = TRUE]
    /\ start' = out
    /\ ri' = 1 /\ idx' = 1 /\ run_objects' = <<>> /\ cur' = NoRun
    /\ err' = "none" /\ copies' = NoCopies /\ log' = {}
    /\ pc' = IF Len(mount) = 0 THEN "done" ELSE "resolve"
    /\ UNCHANGED <<mode, rename, mount, ret, argv, partial, touched>>

\* A variant: the loop over the Runs starts as soon as one Run is resolved
ResolveRunThenLoop ==
    /\ pc = "resolve"
    /\ LET r == BaseMountRun(mount[ri], NoName)
       IN  IF r.ok
           THEN /\ run_objects' = Append(run_objects, r.obj)
                /\ log' = log \cup r.log
                /\ ri' = ri + 1
                /\ pc' = "loop"
                /\ err' = err
           ELSE /\ pc' = "failed"
                /\ err' = r.err
                /\ UNCHANGED <<run_objects, log, ri>>
    /\ UNCHANGED <<mode, rename, mount, out, idx, cur, copies, start, calls, ret, argv, partial, touched>>

\* One iteration of BaseMountProject.generate_run_objects
ResolveRun ==
    /\ pc = "resolve"
    /\ LET r == BaseMountRun(mount[ri], NoName)
       IN  IF r.ok
           THEN /\ run_objects' = Append(run_objects, r.obj)
                /\ log' = log \cup r.log
                /\ ri' = ri + 1
                /\ pc' = IF ri = Len(mount) THEN "loop" ELSE "resolve"
                /\ err' = err
           ELSE /\ pc' = "failed"
                /\ err' = r.err
                /\ UNCHANGED <<run_objects, log, ri>>
    /\ UNCHANGED <<mode, rename, mount, out, idx, cur, copies, start, calls, ret, argv, partial, touched>>

\* Variants of the existence test: no directory counts; only a directory with content counts
never_exists(o) == FALSE
exists_and_not_empty(o) == o.exists /\ (o.dirs # {} \/ o.files # {})

\* A variant of the existence test: only a directory that holds reads counts
exists_with_reads(o) == o.exists /\ \E f \in o.files : f.dir = BaseCalls

\* run_dir_out.exists()
already_exists(o) == o.exists

\* The end of one iteration of the loop over project.run_objects
Advance ==
    IF mode = "project" /\ idx < Len(run_objects)
    THEN idx' = idx + 1 /\ pc' = "loop"
    ELSE idx' = idx /\ pc' = "done"

\* The head of the loop: a Run whose output directory exists is skipped
NextRun ==
    /\ pc = "loop"
    /\ LET run_obj == run_objects[idx]
       IN  IF already_exists(out[run_obj.run_id])
           THEN /\ log' = log \cup {<<"INFO: already exists, skipping", run_obj.run_id>>}
                /\ Advance
                /\ cur' = cur
           ELSE /\ cur' = run_obj
                /\ pc' = "skeleton"
                /\ UNCHANGED <<log, idx>>
    /\ UNCHANGED <<mode, rename, mount, out, ri, run_objects, err, copies, start, calls, ret, argv, partial, touched>>

\* retrieve_experiment_contents_from_basemount, up to BaseMountRun(...)
InvokeRun ==
    /\ mode = "run" /\ cli(argv) = "run" /\ CanInvoke
    /\ calls' = calls + 1
    /\ out' = [out EXCEPT ![Root].exists = TRUE]
    /\ start' = out
    /\ ri' = 1 /\ idx' = 1 /\ run_objects' = <<>> /\ copies' = NoCopies
    /\ LET r == BaseMountRun(mount[1], mount[1].name)
       IN  /\ cur' = r.obj
           /\ log' = r.log
           /\ err' = r.err
           /\ pc' = IF r.ok THEN "skeleton" ELSE "failed"
    /\ UNCHANGED <<mode, rename, mount, ret, argv, partial, touched>>

\* retrieve_nextseq_experiment_contents_from_basemount, up to BaseMountNextSeqRun(...)
InvokeNextSeq ==
    /\ mode = "nextseq" /\ cli(argv) = "nextseq" /\ CanInvoke
    /\ calls' = calls + 1
    /\ out' = [out EXCEPT ![Root].exists = TRUE]
    /\ start' = out
    /\ ri' = 1 /\ idx' = 1 /\ run_objects' = <<>> /\ copies' = NoCopies
    /\ LET r == BaseMountNextSeqRun(mount[1])
       IN  /\ cur' = r.obj
           /\ log' = r.log
           /\ err' = r.err
           /\ pc' = IF r.ok THEN "skeleton" ELSE "failed"
    /\ UNCHANGED <<mode, rename, mount, ret, argv, partial, touched>>

\* One call of the materialization: the directory and the copy count it leaves,
\* then the next call, or the exception
Step(st, next) ==
    /\ out' = [out EXCEPT ![OutDirOf(cur)] = st.o]
    /\ copies' = [copies EXCEPT ![OutDirOf(cur)] = st.n]
    /\ err' = st.err
    /\ IF st.err # "none" THEN pc' = "failed" /\ idx' = idx
       ELSE IF next = "end" THEN Advance
       ELSE pc' = next /\ idx' = idx
    /\ touched' = touched \cup st.touched
    /\ UNCHANGED <<mode, rename, mount, ri, run_objects, cur, start, calls, log, ret, argv, partial>>

Here == Begin(out[OutDirOf(cur)], copies[OutDirOf(cur)])

CreateSkeleton ==
    /\ pc = "skeleton"
    /\ Step([Here EXCEPT !.o = create_run_folder_skeleton(@)],
            IF cur.class = "BaseMountNextSeqRun" THEN "sample_properties" ELSE "metadata")

CopyMetadata ==
    /\ pc = "metadata"
    /\ Step(copy_metadata_files(cur, Here), "logs")

CopyLogs ==
    /\ pc = "logs"
    /\ Step(copy_log_files(cur, Here), "interop")

CopyInterop ==
    /\ pc = "interop"
    /\ Step(copy_interop_files(cur, Here),
            IF cur.class = "BaseMountNextSeqRun" THEN "end" ELSE "reads")

CopyReads ==
    /\ pc = "reads"
    /\ Step(copy_reads(cur, Here, rename), "end")

CopySampleProperties ==
    /\ pc = "sample_properties"
    /\ Step(copy_sample_properties_files(cur.nextseq_samples, Here), "nextseq_reads")

CopyNextSeqReads ==
    /\ pc = "nextseq_reads"
    /\ Step(copy_nextseq_reads(cur, Here, rename), "interop")

Next ==
    \/ InvokeProject \/ ResolveRun \/ NextRun
    \/ InvokeRun \/ InvokeNextSeq \/ CliReject
    \/ CreateSkeleton \/ CopyMetadata \/ CopyLogs \/ CopyInterop \/ CopyReads
    \/ CopySampleProperties \/ CopyNextSeqReads

Spec == Init /\ [][Next]_vars

----------------------------------------------------------------------------
(* A project whose retrieval can be terminated part-way *)

\* The base folders in the order create_run_folder_skeleton makes them
base_folders_in_order ==
    <<"Config", BaseCalls, "Images", "InterOp", "Logs", "Recipes", "Thumbnail_Images">>

\* create_run_folder_skeleton stopped after out_dir.mkdir and k base folders
skeleton_stopped(o, k) ==
    [o EXCEPT !.exists = TRUE,
              !.dirs = @ \cup {base_folders_in_order[i] : i \in 1..k}
                         \cup (IF k >= 2 THEN {"Data", "Data/Intensities"} ELSE {})]

\* The output directories a process terminated inside the call at pc can leave:
\* the call has handled the first k of its files, or of its samples (and, of
\* the next sample, R1 alone)
Interrupted ==
    CASE pc = "skeleton" ->
           {skeleton_stopped(Here.o, k) : k \in 0..Len(base_folders_in_order)}
      [] pc = "metadata" ->
           {Here.o,
            shutil_if_exists(Here, cur.samplesheet, "", <<"SampleSheet.csv">>).o,
            shutil_if_exists(
                shutil_if_exists(Here, cur.samplesheet, "", <<"SampleSheet.csv">>),
                cur.runinfoxml, "", <<"RunInfo.xml">>).o}
      [] pc = "logs" ->
           IF ~cur.logfiles_set THEN {Here.o}
           ELSE {copy_each(Here, SubSeq(cur.logfiles, 1, k), <<"log_dir">>, "Logs").o :
                    k \in 0..Len(cur.logfiles)}
      [] pc = "interop" ->
           IF ~cur.interop_files_set THEN {Here.o}
           ELSE {copy_each(Here, SubSeq(cur.interop_files, 1, k), <<"Files/InterOp">>, "InterOp").o :
                    k \in 0..Len(cur.interop_files)}
      [] pc = "reads" ->
           UNION {LET st == copy_reads_loop(SubSeq(cur.sample_objects, 1, k), Here, rename)
                      s == cur.sample_objects[k + 1]
                  IN  {st.o,
                       IF s.r1 = NoPath \/ (rename /\ s.sample_id = NoName) THEN st.o
                       ELSE Copy(st, s.r1, "file", BaseCalls,
                                 IF rename THEN s.sample_id \o <<"_R1.fastq.gz">>
                                 ELSE s.r1.name).o} :
                  k \in 0..(Len(cur.sample_objects) - 1)}
             \cup {Here.o}

\* The process is terminated (a signal, a power cut) while a Run of a project is
\* being materialized: what it has written so far stays
Kill ==
    /\ mode = "project"
    /\ pc \in {"skeleton", "metadata", "logs", "interop", "reads"}
    /\ \E o \in Interrupted :
           /\ out' = [out EXCEPT ![OutDirOf(cur)] = o]
           /\ partial' = IF o.exists
                         THEN partial \cup {[dir |-> OutDirOf(cur), content |-> o, call |-> calls]}
                         ELSE partial
    /\ pc' = "killed"
    /\ err' = "terminated"
    /\ UNCHANGED <<mode, rename, mount, ri, idx, run_objects, cur, copies, start, calls, log,
                   ret, argv, touched>>

\* A project of up to MaxRuns Run directories that all resolve: complete ones,
\* ones with a sample that has no pair, ones without log directory; nothing has
\* been retrieved yet
KillShapes == {"good", "unpaired", "no_logs"}

InitKill ==
    /\ argv = [project_dir |-> "Projects", run_dir |-> None, nextseq |-> FALSE]
    /\ mode = "project"
    /\ rename \in BOOLEAN
    /\ \E shapes \in SeqsUpTo(KillShapes, MaxRuns) :
           mount = [i \in 1..Len(shapes) |-> RunOf(i, shapes[i])]
    /\ out = [d \in OutNames |-> NoDir]
    /\ Idle

NextKill ==
    \/ InvokeProject \/ ResolveRun \/ NextRun
    \/ CreateSkeleton \/ CopyMetadata \/ CopyLogs \/ CopyInterop \/ CopyReads
    \/ Kill

SpecKill == InitKill /\ [][NextKill]_vars

----------------------------------------------------------------------------
(* Single functions applied to a Run directory *)

Apply(fn, val) ==
    /\ pc = "idle"
    /\ ret' = [fn |-> fn, val |-> val]
    /\ pc' = "done"
    /\ UNCHANGED <<mode, rename, mount, out, ri, idx, run_objects, cur, err, copies, start,
                   calls, log, argv, partial, touched>>

GetSampleSheet == mode = "locate" /\ Apply("get_samplesheet", get_samplesheet(mount[1]))
GetRunInfoXml == mode = "locate" /\ Apply("get_runinfoxml", get_runinfoxml(mount[1]))
GetRunParametersXml ==
    mode = "locate" /\ Apply("get_runparametersxml", get_runparametersxml(mount[1]))
ResolveLocated == mode = "locate" /\ Apply("BaseMountRun", BaseMountRun(mount[1], mount[1].name))

NextLocate == GetSampleSheet \/ GetRunInfoXml \/ GetRunParametersXml \/ ResolveLocated

SpecLocate == InitLocate /\ [][NextLocate]_vars

ExtractExperimentName ==
    mode = "sheet" /\ Apply("extract_experiment_name", extract_experiment_name(mount[1].sheet))
ParseSampleSheet ==
    mode = "sheet" /\ Apply("parse_samplesheet", parse_samplesheet(mount[1].sheet))

NextSheet == ExtractExperimentName \/ ParseSampleSheet

SpecSheet == InitSheet /\ [][NextSheet]_vars

----------------------------------------------------------------------------
(* The functions that find the log directory and the samples of a Run *)

OtherEntry(name) ==
    [name |-> name, isdir |-> TRUE, props |-> NoSampleProperties, files |-> <<>>,
     applogs |-> "absent"]

\* The entries of a Run directory: sample directories, one a second directory of
\* sample S1, one without SampleProperties, the Undetermined pool, a file, and
\* an entry that is no sample
ChildEntries ==
    { SampleDir("S1", "paired"),
      SampleDir("S2", "paired"),
      [SampleDir("S1", "no_r1") EXCEPT !.name = <<"Sample.", "S1", "-requeue">>],
      [SampleDir("S3", "paired") EXCEPT !.props = NoSampleProperties],
      SampleDir("Undetermined", "paired"),
      [SampleDir("S2", "paired") EXCEPT !.name = <<"Sample.", "S2", ".txt">>, !.isdir = FALSE],
      OtherEntry(<<"Properties">>) }

\* The entries of Properties/Output.Samples: with or without SampleProperties,
\* with ParentAppSession/Logs a directory, a file or absent
OutEntries ==
    { OutputSample("S1", FilesOf("S1", "paired"), "absent"),
      OutputSample("S2", FilesOf("S2", "paired"), "dir"),
      OutputSample("S3", FilesOf("S3", "paired"), "dir"),
      OutputSample("S2", FilesOf("S2", "paired"), "file"),
      [OutputSample("S1", FilesOf("S1", "no_r1"), "dir") EXCEPT !.name = <<"S1", "-requeue">>],
      [OutputSample("S3", <<>>, "absent") EXCEPT !.props = NoSampleProperties],
      OutputSample("Undetermined", <<>>, "dir"),
      [OutputSample("S2", <<>>, "absent") EXCEPT !.name = <<"S2", ".txt">>, !.isdir = FALSE] }

\* A Run directory with any entries, or with no sample directory of its own and
\* any entries of Properties/Output.Samples
InitSamples ==
    /\ argv = NoArgs
    /\ mode = "samples"
    /\ rename = FALSE
    /\ \E logs \in Kinds :
          \/ \E children \in SeqsUpTo(ChildEntries, MaxEntries),
                outsamples \in {<<>>, <<OutputSample("S3", FilesOf("S3", "paired"), "dir")>>} :
                 mount = << [BaseRun(1) EXCEPT !.logs = logs, !.children = children,
                                               !.outsamples = outsamples] >>
          \/ \E children \in {<<>>, <<OtherEntry(<<"Properties">>)>>},
                outsamples \in SeqsUpTo(OutEntries, MaxEntries) :
                 mount = << [BaseRun(1) EXCEPT !.logs = logs, !.children = children,
                                               !.outsamples = outsamples] >>
    /\ out = [d \in OutNames |-> NoDir]
    /\ Idle

GetLogDir == mode = "samples" /\ Apply("get_log_dir", get_log_dir(mount[1]))
GetSampleDirs == mode = "samples" /\ Apply("get_sample_dirs", get_sample_dirs(mount[1]))
GetSampleIdDict ==
    mode = "samples"
    /\ Apply("get_sample_id_dict", get_sample_id_dict(get_sample_dirs(mount[1])))
GenerateSampleObjects ==
    mode = "samples"
    /\ LET d == get_sample_id_dict(get_sample_dirs(mount[1]))
       IN  d.ok /\ Apply("generate_sample_objects", generate_sample_objects(d.val))

NextSamples == GetLogDir \/ GetSampleDirs \/ GetSampleIdDict \/ GenerateSampleObjects

SpecSamples == InitSamples /\ [][NextSamples]_vars

----------------------------------------------------------------------------
(* Properties *)

Finished == pc \in {"done", "failed"}

\* A sample directory holds exactly one R1 file and exactly one R2 file
ExactlyOnePair(e) ==
    Cardinality(GlobReads(e, "_R1_")) = 1 /\ Cardinality(GlobReads(e, "_R2_")) = 1

\* Both reads of sample directory e are in Data/Intensities/BaseCalls of o
ReadsCopied(o, e) ==
    \A marker \in {"_R1_", "_R2_"} :
        \A g \in GlobReads(e, marker) :
            \E f \in o.files : f.dir = BaseCalls /\ f.src = PathOf(e, g)

\* Run directory i of the project resolves and materializes without an exception
Healthy(i) ==
    LET r == BaseMountRun(mount[i], NoName)
    IN  r.ok /\ MaterializeRun(r.obj, NoDir, 0, rename).err = "none"

\* C1: in project mode, when exactly one Run of the project fails to resolve
\* or to materialize, whatever its position, every other Run is still
\* resolved and materialized (here: every other Run whose output directory
\* was not there at the start has its complete output at the end of the call).
C1_OtherRunsStillMaterialized ==
    (mode = "project" /\ Finished /\ Cardinality({i \in 1..Len(mount) : ~Healthy(i)}) = 1)
    => \A i \in 1..Len(mount) :
           (Healthy(i) /\ ~start[RunName(i)].exists)
           => /\ \E k \in 1..Len(run_objects) : run_objects[k].run_id = RunName(i)
              /\ out[RunName(i)] =
                     MaterializeRun(BaseMountRun(mount[i], NoName).obj, NoDir, 0, rename).o

\* C2: a sample directory with exactly one R1 and exactly one R2 file gives a
\* Sample whose two read slots are those files; a sample directory with zero
\* or several matches for either read is left out of the Run's samples, with
\* a logged message and no exception.
C2_UnpairableSampleOmitted ==
    (mode = "run" /\ cur.class = "BaseMountRun")
    => \A k \in 1..Len(mount[1].children) :
           LET e == mount[1].children[k]
               objs == {i \in 1..Len(cur.sample_objects) :
                            cur.sample_objects[i].sample_dir = e.name}
           IN  IF ExactlyOnePair(e)
               THEN \E i \in objs :
                        /\ \E g \in GlobReads(e, "_R1_") : cur.sample_objects[i].r1 = PathOf(e, g)
                        /\ \E g \in GlobReads(e, "_R2_") : cur.sample_objects[i].r2 = PathOf(e, g)
               ELSE /\ objs = {}
                    /\ \E m \in log : m[1] = "ERROR: Could not validate FASTQ files"

\* C3: for a Run with one unpairable sample and any number of paired samples,
\* in any order, copy_reads runs to completion and copies both reads of every
\* paired sample into Data/Intensities/BaseCalls, with or without rename.
C3_CopyReadsSkipsUnpairable ==
    [][(mode = "run" /\ pc = "reads"
        /\ Cardinality({k \in 1..Len(mount[1].children) :
                            ~ExactlyOnePair(mount[1].children[k])}) = 1)
       => /\ pc' = "done"
          /\ \A k \in 1..Len(mount[1].children) :
                 ExactlyOnePair(mount[1].children[k])
                 => ReadsCopied(out'[Root], mount[1].children[k])]_vars

NotEmpty(o) == o.exists /\ (o.dirs # {} \/ o.files # {})

\* C4 as stated: through every entry point, a second call on an output
\* directory that the first call left non-empty copies no file into it.
C4_SecondCallCopiesNothing ==
    calls = 2 => \A d \in OutNames : NotEmpty(start[d]) => copies[d] = 0

\* C4: in project mode, a call copies no file into the output directory of a
\* Run that was there when the call started; this is what makes a second
\* project call on the same output copy nothing for the Runs already done.
C4_ProjectCallLeavesExistingRuns ==
    mode = "project" => \A d \in OutNames \ {Root} : start[d].exists => copies[d] = 0

\* C4, reached: a second project call skips a Run the first call materialized
C4_RunSkippedOnSecondCall ==
    /\ mode = "project" /\ calls = 2 /\ pc = "done"
    /\ \E d \in OutNames \ {Root} :
           /\ start[d].files # {}
           /\ copies[d] = 0
           /\ out[d] = start[d]
           /\ <<"INFO: already exists, skipping", d>> \in log

\* C5 as stated: the project loop skips a Run exactly when its output
\* directory exists and is not empty; an empty one is materialized into.
C5_SkipIffExistsAndNotEmpty ==
    [][pc = "loop"
       => LET d == run_objects[idx].run_id
          IN  IF NotEmpty(out[d])
              THEN pc' # "skeleton" /\ out' = out
              ELSE pc' = "skeleton" /\ cur' = run_objects[idx]]_vars

\* C5: the project loop skips a Run exactly when its output directory exists,
\* empty or not; a Run whose output directory does not exist goes on to be
\* materialized.
C5_SkipIffExists ==
    [][pc = "loop"
       => LET d == run_objects[idx].run_id
          IN  IF out[d].exists
              THEN pc' # "skeleton" /\ out' = out
              ELSE pc' = "skeleton" /\ cur' = run_objects[idx]]_vars

\* C5, reached: a Run whose output directory was there, empty, is skipped and
\* stays empty while a Run without one is materialized
C5_EmptyDirectorySkipped ==
    /\ mode = "project" /\ calls = 1 /\ pc = "done"
    /\ \E d \in OutNames \ {Root} :
           /\ start[d] = EmptyDir
           /\ out[d] = EmptyDir
           /\ <<"INFO: already exists, skipping", d>> \in log
    /\ \E d \in OutNames \ {Root} : ~start[d].exists /\ out[d].files # {}

\* C6: get_samplesheet returns the first of Properties/Input.sample-sheet,
\* Files/SampleSheet.csv and Properties/Input.Libraries/0/Properties/
\* Output.Runs/0/Files/SampleSheet.csv that is a regular file, and raises
\* exactly when none of the three is.
C6_SampleSheetPriority ==
    ret.fn = "get_samplesheet"
    => LET k == mount[1].ss
           r == ret.val
       IN  /\ k[1] = "file" => r = Return("Properties/Input.sample-sheet")
           /\ (k[1] # "file" /\ k[2] = "file") => r = Return("Files/SampleSheet.csv")
           /\ (k[1] # "file" /\ k[2] # "file" /\ k[3] = "file")
              => r = Return("Properties/Input.Libraries/0/Properties/Output.Runs/0/Files/SampleSheet.csv")
           /\ ~r.ok <=> \A i \in 1..3 : k[i] # "file"
           /\ ~r.ok => r.err = "FileNotFoundError"

\* C6, reached: a directory at the first place, nothing at the second, the
\* sample sheet found at the third
C6_ThirdPlaceFound ==
    /\ ret.fn = "get_samplesheet"
    /\ mount[1].ss = <<"dir", "absent", "file">>
    /\ ret.val.ok

\* C7: get_runinfoxml and get_runparametersxml return the first of their
\* places that is a regular file, and None when none is; resolution of the
\* Run then goes on and ends with a Run object holding what was located.
C7_RunInfoAndParametersPriority ==
    LET ki == mount[1].ri
        kp == mount[1].rp
        info == IF ki[1] = "file" THEN "Properties/Input.Runs/0/Files/RunInfo.xml"
                ELSE IF ki[2] = "file" THEN "Logs/RunInfo.xml"
                ELSE IF ki[3] = "file" THEN "Files/RunInfo.xml"
                ELSE None
        params == IF kp[1] = "file" THEN "Properties/Input.Runs/0/Files/RunParameters.xml"
                  ELSE IF kp[2] = "file" THEN "Files/RunParameters.xml"
                  ELSE None
    IN  /\ ret.fn = "get_runinfoxml" => ret.val = info
        /\ ret.fn = "get_runparametersxml" => ret.val = params
        /\ ret.fn = "BaseMountRun"
           => /\ ret.val.ok <=> \E i \in 1..3 : mount[1].ss[i] = "file"
              /\ ret.val.ok => /\ ret.val.obj.runinfoxml = info
                               /\ ret.val.obj.runparametersxml = params
                               /\ ret.val.obj.logfiles_set
                               /\ Len(ret.val.obj.sample_objects) = Len(mount[1].children)

\* C7, reached: a Run resolved with neither RunInfo.xml nor RunParameters.xml
C7_ResolvedWithoutEither ==
    /\ ret.fn = "BaseMountRun"
    /\ \A i \in 1..3 : mount[1].ri[i] # "file"
    /\ \A i \in 1..2 : mount[1].rp[i] # "file"
    /\ ret.val.ok
    /\ ret.val.obj.runinfoxml = None
    /\ ret.val.obj.runparametersxml = None

\* C8: extract_experiment_name returns the trimmed second field of the line
\* that begins with 'Experiment Name' whenever the sheet has one, wherever it
\* stands; the line that begins with 'Description' is used only when there is
\* no such line; it raises exactly when the sheet has neither.
C8_ExperimentNameFirst ==
    ret.fn = "extract_experiment_name"
    => LET lines == mount[1].sheet
           begins(m) == {k \in 1..Len(lines) : lines[k] # <<>> /\ lines[k][1] = m}
           first(S) == CHOOSE k \in S : \A j \in S : k <= j
           field(k) == LET f == Split(lines[k], ",")
                       IN  IF Len(f) >= 2 THEN Strip(f[2]) ELSE <<>>
           E == begins("Experiment Name")
           D == begins("Description")
       IN  /\ E # {} => ret.val.ok /\ ret.val.val = field(first(E))
           /\ (E = {} /\ D # {}) => ret.val.ok /\ ret.val.val = field(first(D))
           /\ ~ret.val.ok <=> (E = {} /\ D = {})

\* The ids of the sample objects of a Run object
ResolvedIds(obj) == {obj.sample_objects[i].sample_id : i \in 1..Len(obj.sample_objects)}

C10_DeclaredS1S2FoundS1S3 ==
    (/\ mode = "run" /\ Finished
     /\ parse_samplesheet(mount[1].sheet).val = << <<"S1">>, <<"S2">> >>
     /\ {mount[1].children[k].name : k \in 1..Len(mount[1].children)}
            = {<<"Sample.", "S1">>, <<"Sample.", "S3">>}
     /\ \A k \in 1..Len(mount[1].children) : ExactlyOnePair(mount[1].children[k]))
    => /\ pc = "done"
       /\ \A k \in 1..Len(mount[1].children) : ReadsCopied(out[Root], mount[1].children[k])
       /\ \A f \in out[Root].files : f.dir = BaseCalls => f.src.dir # <<"Sample.", "S2">>
       /\ cur.difference_list = { <<"S3">> }

\* The materialization of Run object obj by this call has completed
Completed(obj) ==
    /\ pc = "done"
    /\ \/ mode \in {"run", "nextseq"} /\ obj = cur
       \/ mode = "project" /\ obj \in Range(run_objects) /\ ~start[obj.run_id].exists

\* The file `name` at the top of output directory o is a copy of source path p
TopFile(o, name, p) ==
    \E f \in o.files : f.dir = "" /\ f.name = <<name>> /\ f.src = MetaPath(p)

\* C11: after a Run is materialized, every metadata artifact that was located
\* is at its place in the output directory: the sample sheet as
\* SampleSheet.csv, run-info as RunInfo.xml, run-parameters as
\* RunParameters.xml, every InterOp file under InterOp/ with its name.
C11_LocatedMetadataAtCanonicalPlace ==
    \A obj \in Range(run_objects) \cup {cur} :
        (Completed(obj) /\ obj.class = "BaseMountRun")
        => LET o == out[OutDirOf(obj)]
           IN  /\ TopFile(o, "SampleSheet.csv", obj.samplesheet)
               /\ obj.runinfoxml # None => TopFile(o, "RunInfo.xml", obj.runinfoxml)
               /\ obj.runparametersxml # None
                  => TopFile(o, "RunParameters.xml", obj.runparametersxml)
               /\ \A k \in 1..Len(obj.interop_files) :
                      \E f \in o.files : f.dir = "InterOp" /\ f.name = obj.interop_files[k].name

\* C12: an absent optional artifact never aborts a Run: for every subset of
\* run-info, run-parameters, InterOp directory and log directory that is
\* absent, resolution succeeds with that field empty and materialization runs
\* to completion, copying what is there and all sample reads.
C12_AbsentOptionalArtifactsTolerated ==
    (/\ mode = "run" /\ Finished
     /\ \A k \in 1..Len(mount[1].children) : ExactlyOnePair(mount[1].children[k]))
    => LET rd == mount[1]
           o == out[Root]
       IN  /\ pc = "done"
           /\ (\A i \in 1..Len(rd.ri) : rd.ri[i] # "file") => cur.runinfoxml = None
           /\ (\A i \in 1..Len(rd.rp) : rd.rp[i] # "file") => cur.runparametersxml = None
           /\ rd.interop.kind # "dir" => cur.interop_dir = None
           /\ rd.logs # "dir" => cur.log_dir = NoLogDir
           /\ TopFile(o, "SampleSheet.csv", cur.samplesheet)
           /\ cur.runinfoxml # None => TopFile(o, "RunInfo.xml", cur.runinfoxml)
           /\ \A k \in 1..Len(cur.interop_files) :
                  \E f \in o.files : f.dir = "InterOp" /\ f.name = cur.interop_files[k].name
           /\ \A k \in 1..Len(cur.logfiles) :
                  \E f \in o.files : f.dir = "Logs" /\ f.name = cur.logfiles[k].name
           /\ \A k \in 1..Len(rd.children) : ReadsCopied(o, rd.children[k])

\* C13 as stated: every Run output directory of a materialization that
\* completes holds the top-level file SampleSheet.csv, whichever entry point
\* produced it.
C13_SampleSheetInEveryOutput ==
    \A obj \in Range(run_objects) \cup {cur} :
        Completed(obj)
        => \E f \in out[OutDirOf(obj)].files : f.dir = "" /\ f.name = <<"SampleSheet.csv">>

\* C13: every Run output directory of a materialization that completes in
\* project mode or single-Run standard mode holds the top-level file
\* SampleSheet.csv, a copy of the located sample sheet; a NextSeq
\* materialization that completes leaves no top-level file at all.
C13_SampleSheetInStandardOutputs ==
    \A obj \in Range(run_objects) \cup {cur} :
        Completed(obj)
        => IF obj.class = "BaseMountRun"
           THEN TopFile(out[OutDirOf(obj)], "SampleSheet.csv", obj.samplesheet)
           ELSE \A f \in out[OutDirOf(obj)].files : f.dir # ""

\* C13, reached: a NextSeq materialization completed with reads copied
C13_NextSeqOutputWithoutSheet ==
    /\ mode = "nextseq" /\ pc = "done"
    /\ \E f \in out[Root].files : f.dir = BaseCalls
    /\ \A f \in out[Root].files : f.name # <<"SampleSheet.csv">>

C15_BothOrNeitherExitsNonZero ==
    (/\ pc = "exited"
     /\ \/ argv.project_dir # None /\ argv.run_dir # None
        \/ argv.project_dir = None /\ argv.run_dir = None)
    => /\ out = start
       /\ copies = NoCopies
       /\ run_objects = <<>> /\ cur = NoRun
       /\ exit_status # 0

\* A copy of source path p named `name` is in Data/Intensities/BaseCalls of o
ReadAt(o, p, name) == \E f \in o.files : f.dir = BaseCalls /\ f.src = p /\ f.name = name

\* The reads of Run object obj are in output directory o under the names of
\* C16: with rename {sample_id}_R1.fastq.gz / {sample_id}_R2.fastq.gz
\* (NextSeq: {sample_id}_L00n_R1.fastq.gz / {sample_id}_L00n_R2.fastq.gz,
\* n = 1..4), without rename the name of the source file
ReadsNamed(obj, o) ==
           LET lanes == [R1_L1 |-> "_L001_R1.fastq.gz", R2_L1 |-> "_L001_R2.fastq.gz",
                         R1_L2 |-> "_L002_R1.fastq.gz", R2_L2 |-> "_L002_R2.fastq.gz",
                         R1_L3 |-> "_L003_R1.fastq.gz", R2_L3 |-> "_L003_R2.fastq.gz",
                         R1_L4 |-> "_L004_R1.fastq.gz", R2_L4 |-> "_L004_R2.fastq.gz"]
           IN  /\ \A i \in 1..Len(obj.sample_objects) :
                      LET s == obj.sample_objects[i]
                      IN  /\ s.r1 # NoPath
                             => ReadAt(o, s.r1, IF rename THEN s.sample_id \o <<"_R1.fastq.gz">>
                                                ELSE s.r1.name)
                          /\ s.r2 # NoPath
                             => ReadAt(o, s.r2, IF rename THEN s.sample_id \o <<"_R2.fastq.gz">>
                                                ELSE s.r2.name)
               /\ \A i \in 1..Len(obj.nextseq_samples) :
                      LET s == obj.nextseq_samples[i]
                      IN  \A k \in DOMAIN lanes :
                              ReadAt(o, s.reads[k], IF rename THEN s.sample_id \o <<lanes[k]>>
                                                    ELSE s.reads[k].name)
\* C16: every resolved read file of every Sample is copied into
\* Data/Intensities/BaseCalls: when an invocation on one Run has resolved it
\* and ended, each resolved read is there, with rename as
\* {sample_id}_R1.fastq.gz / {sample_id}_R2.fastq.gz (NextSeq:
\* {sample_id}_L00n_R1.fastq.gz / {sample_id}_L00n_R2.fastq.gz), without rename
\* under the name of the source file
C16_EveryResolvedReadCopied ==
    (mode \in {"run", "nextseq"} /\ Finished
     /\ cur.class \in {"BaseMountRun", "BaseMountNextSeqRun"})
    => ReadsNamed(cur, out[Root])

\* The samples of the sequence have pairwise distinct sample_ids
DistinctIds(samples) ==
    \A i, j \in 1..Len(samples) : samples[i].sample_id = samples[j].sample_id => i = j

\* C16, where the materialization completes and no two samples share an id: the
\* reads of every completed Run are in Data/Intensities/BaseCalls under the
\* names of the rule
C16_ReadDestinationNames ==
    \A obj \in Range(run_objects) \cup {cur} :
        (Completed(obj) /\ DistinctIds(obj.nextseq_samples))
        => ReadsNamed(obj, out[OutDirOf(obj)])


\* C17: the source (mounted) tree is never modified: no step of any invocation,
\* whether the invocation succeeds, skips or fails part-way, changes the mounted
\* tree or writes, moves, removes or chmods a source path
C17_SourceTreeNeverModified ==
    [][mount' = mount /\ touched' = {}]_vars

\* C17, reached: an invocation on one Run has failed part-way, after it copied
\* files, and no source path has been altered
C17_FailedPartWayAfterCopies ==
    mode = "run" /\ pc = "failed" /\ copies[Root] > 0 /\ touched = {}
\* C18: once a materialization has completed, every file in the output
\* directory of the Run (sample sheet, run-info, Stats.json, log files, InterOp
\* files, read files) has mode 0o666
C18_CopiedFilesHaveMode666 ==
    \A obj \in Range(run_objects) \cup {cur} :
        Completed(obj) => \A f \in out[OutDirOf(obj)].files : f.mode = Mode666

\* C18, reached: a completed materialization of one Run that copied metadata,
\* log files, InterOp files and reads, all of them with mode 0o666
C18_CompletedWithEveryKindOfFile ==
    /\ mode = "run" /\ Completed(cur)
    /\ \A d \in {"", "Logs", "InterOp", BaseCalls} :
           \E f \in out[Root].files : f.dir = d /\ f.mode = Mode666
\* C19: a Run directory that a terminated process left behind in project mode
\* stays as it was left: every later invocation on the same project and output
\* directory copies nothing into it, and one that runs through its loop to the
\* end has skipped that Run
C19_PartialRunDirectorySkipped ==
    \A p \in partial :
        /\ out[p.dir] = p.content
        /\ calls > p.call
           => /\ copies[p.dir] = 0
              /\ pc \notin {"skeleton", "metadata", "logs", "interop", "reads"}
                 \/ OutDirOf(cur) # p.dir
              /\ pc = "done" => <<"INFO: already exists, skipping", p.dir>> \in log

\* C19, reached: a later invocation has run to its end, and the directory of a
\* Run that has samples, left behind without any read, is still without them
C19_LaterInvocationLeftPartialRun ==
    \E p \in partial :
        /\ calls > p.call /\ pc = "done"
        /\ ~\E f \in out[p.dir].files : f.dir = BaseCalls
        /\ \E i \in 1..Len(run_objects) :
               run_objects[i].run_id = p.dir /\ run_objects[i].sample_objects # <<>>
\* The seven directories of the skeleton, and the two that lead to the reads
SevenDirectories ==
    {"Config", "Data/Intensities/BaseCalls", "Images", "InterOp", "Logs", "Recipes",
     "Thumbnail_Images"}
LeadingDirectories == {"Data", "Data/Intensities"}

\* C20: create_run_folder_skeleton, applied to any output directory the program
\* can meet (absent, empty, or with directories and files in it), raises nothing
\* and leaves the directory with exactly the seven directories Config,
\* Data/Intensities/BaseCalls, Images, InterOp, Logs, Recipes and
\* Thumbnail_Images (and the two leading to the second) added to what was
\* there; no directory or file is removed, and a second application changes nothing
C20_SkeletonSevenDirectoriesIdempotent ==
    \A d \in OutNames :
        LET o == out[d]
            s == create_run_folder_skeleton(o)
        IN  /\ s.exists
            /\ s.dirs = o.dirs \cup SevenDirectories \cup LeadingDirectories
            /\ s.files = o.files
            /\ create_run_folder_skeleton(s) = s

\* C20, reached: a second invocation on one Run has applied the skeleton to an
\* output directory that held the seven directories and copied files, and the
\* directory is as it was
C20_SkeletonAppliedToFilledDirectory ==
    /\ mode = "run" /\ calls = 2 /\ pc = "metadata"
    /\ start[Root].files # {}
    /\ SevenDirectories \subseteq start[Root].dirs
    /\ out[Root] = start[Root]
\* What C21 says of the log directory of Run directory rd, where `there` tells
\* that run_dir/Logs counts as being there
LogDirAsClaimed(rd, there) ==
    LET nested == {i \in 1..Len(rd.outsamples) : rd.outsamples[i].applogs = "dir"}
    IN  IF there THEN [at |-> "Logs", sample |-> NoName]
        ELSE IF nested # {}
        THEN [at |-> "ParentAppSession/Logs",
              sample |-> rd.outsamples[CHOOSE i \in nested : \A j \in nested : i <= j].name]
        ELSE NoLogDir

\* C21: get_log_dir returns run_dir/Logs when that directory exists; otherwise
\* the ParentAppSession/Logs directory of the first entry of
\* Properties/Output.Samples that has one; otherwise None, and it never raises
C21_GetLogDirConventionalThenNested ==
    (mode = "samples" /\ ret.fn = "get_log_dir")
    => ret.val = LogDirAsClaimed(mount[1], is_dir(mount[1].logs))

\* C21, where run_dir/Logs is a directory or absent: the result is as claimed
C21_GetLogDirWhereLogsIsNoFile ==
    (mode = "samples" /\ ret.fn = "get_log_dir" /\ ~is_file(mount[1].logs))
    => ret.val = LogDirAsClaimed(mount[1], is_dir(mount[1].logs))
\* C22: get_sample_dirs returns entries matching Sample.* under the Run when at
\* least one entry matches, and only when none matches the entries of
\* Properties/Output.Samples that hold a SampleProperties record; either way the
\* entries returned are those of that place that are directories and have no
\* 'Undetermined' in their name
C22_GetSampleDirsPrimaryThenFallback ==
    (mode = "samples" /\ ret.fn = "get_sample_dirs")
    => LET rd == mount[1]
           matching == {e \in Range(rd.children) : Head(e.name) = "Sample."}
           recorded == {e \in Range(rd.outsamples) : e.props.present}
           place == IF matching # {} THEN matching ELSE recorded
       IN  /\ Range(ret.val) =
                  {e \in place : e.isdir /\ ~Contains("Undetermined", e.name)}
           /\ \A i \in 1..Len(ret.val) :
                  ret.val[i].isdir /\ ~Contains("Undetermined", ret.val[i].name)

\* C22, reached: no entry of the Run matches Sample.*, and get_sample_dirs has
\* returned entries of Properties/Output.Samples, leaving out one without
\* SampleProperties or the Undetermined pool
C22_FallbackUsed ==
    /\ mode = "samples" /\ ret.fn = "get_sample_dirs"
    /\ \A e \in Range(mount[1].children) : Head(e.name) # "Sample."
    /\ ret.val # <<>>
    /\ \E e \in Range(mount[1].outsamples) :
           ~e.props.present \/ Contains("Undetermined", e.name)
\* The value of the line `key` of the SampleProperties record of entry e
Declared(e, key) ==
    LET l == CHOOSE line \in Range(e.props.lines) : Head(line) = key
    IN  SubSeq(l, 3, Len(l) - 1)

\* Entry e has its place in the dict d under an id that is part of its name
KeyedByNamePart(d, e) ==
    \E i \in 1..Len(d) :
        /\ d[i].val.sample_dir = e
        /\ d[i].key # NoName
        /\ \E a, b \in 1..Len(e.name) : d[i].key = SubSeq(e.name, a, b)

\* The retained sample directories with a SampleProperties record have, in the
\* dict d, the id and the name their record declares
KeyedByRecord(d, dirs) ==
    \A e \in Range(dirs) :
        e.props.present
        => \E i \in 1..Len(d) :
               /\ d[i].key = Declared(e, "SampleId:")
               /\ d[i].val.sample_dir = e => d[i].val.sample_name = Declared(e, "Name:")

\* C23: every retained sample directory with a SampleProperties record gets the
\* sample_id and sample_name of its SampleId and Name lines; one without such a
\* record gets a sample_id taken from its own name; so every retained sample
\* directory has a sample_id that is not None
C23_SampleIdFromRecordOrDirectoryName ==
    (mode = "samples" /\ ret.fn = "get_sample_id_dict")
    => /\ ret.val.ok
       /\ KeyedByRecord(ret.val.val, get_sample_dirs(mount[1]))
       /\ \A e \in Range(get_sample_dirs(mount[1])) :
              ~e.props.present => KeyedByNamePart(ret.val.val, e)
       /\ \A i \in 1..Len(ret.val.val) : ret.val.val[i].key # NoName

\* C23, for the directories that have a record: id and name are those it declares
C23_SampleIdFromRecord ==
    (mode = "samples" /\ ret.fn = "get_sample_id_dict")
    => ret.val.ok /\ KeyedByRecord(ret.val.val, get_sample_dirs(mount[1]))
\* The files of the Files area of entry e that slot k (R1/R2 x lane) matches
SlotMatches(e, k) == {i \in 1..Len(e.files) : SlotOf(e.files[i].name) = k}

\* The sample directories of the NextSeq Run object obj
NextSeqAdded(obj) == {obj.nextseq_samples[i].sample_dir : i \in 1..Len(obj.nextseq_samples)}

\* C24: in NextSeq mode the samples of the Run are those of its sample
\* directories in which each of the eight slots R1/R2 x L001..L004 is matched
\* by exactly one file: a sample with an unmatched slot or with a slot matched
\* twice is left out, the others are added, and the Run object is built
C24_OnlyUniquelyFilledSamplesAdded ==
    (mode = "nextseq" /\ cur.class = "BaseMountNextSeqRun")
    => NextSeqAdded(cur) =
           {e.name : e \in {x \in Range(mount[1].outsamples) :
                               x.isdir /\ \A k \in Range(Slots) : Cardinality(SlotMatches(x, k)) = 1}}

\* C24, as the code has it: the samples added are those with every slot matched
\* at least once
C24_FilledSamplesAdded ==
    (mode = "nextseq" /\ cur.class = "BaseMountNextSeqRun")
    => NextSeqAdded(cur) =
           {e.name : e \in {x \in Range(mount[1].outsamples) :
                               x.isdir /\ \A k \in Range(Slots) : SlotMatches(x, k) # {}}}
\* The id under which get_sample_id_dict files entry e: that of its record, or None
IdOf(e) == IF e.props.present THEN Declared(e, "SampleId:") ELSE NoName

\* C25: the sample objects of a Run have pairwise distinct sample_ids, whatever
\* its sample directories; of the directories that declare one SampleId, the
\* one enumerated last is the sample directory of the object, and the earlier
\* ones have no object
C25_SampleIdsUniqueLastKept ==
    (mode = "samples" /\ ret.fn = "generate_sample_objects")
    => LET dirs == get_sample_dirs(mount[1])
           objs == ret.val
       IN  /\ \A i, j \in 1..Len(objs) : objs[i].sample_id = objs[j].sample_id => i = j
           /\ \A k \in 1..Len(dirs) :
                  \E i \in 1..Len(objs) :
                      /\ objs[i].sample_id = IdOf(dirs[k])
                      /\ LET last == CHOOSE n \in 1..Len(dirs) :
                                         /\ IdOf(dirs[n]) = IdOf(dirs[k])
                                         /\ \A m \in 1..Len(dirs) :
                                                IdOf(dirs[m]) = IdOf(dirs[k]) => m <= n
                         IN  objs[i].sample_dir = dirs[last].name
           /\ Len(objs) = Cardinality({IdOf(dirs[k]) : k \in 1..Len(dirs)})

\* C25, reached: two different sample directories of the Run declare the same
\* SampleId, and the Run has one sample object, that of the second
C25_TwoDirectoriesOneSample ==
    /\ mode = "samples" /\ ret.fn = "generate_sample_objects"
    /\ LET dirs == get_sample_dirs(mount[1])
       IN  /\ Len(dirs) = 2 /\ dirs[1].name # dirs[2].name
           /\ dirs[1].props.present /\ IdOf(dirs[1]) = IdOf(dirs[2])
           /\ Len(ret.val) = 1 /\ ret.val[1].sample_dir = dirs[2].name
\* C26: in project mode nothing is written for any Run before every Run of the
\* project is resolved: while the Run objects are fewer than the Run
\* directories (resolution under way, or ended by the failure of one Run), every
\* Run output directory, and out_dir but for its own creation, is as it was
\* when the invocation started, and nothing has been copied
C26_NothingWrittenBeforeAllResolved ==
    (mode = "project" /\ Len(run_objects) < Len(mount))
    => /\ \A d \in OutNames \ {Root} : out[d] = start[d] /\ copies[d] = 0
       /\ out[Root].dirs = start[Root].dirs /\ out[Root].files = start[Root].files

\* C26, reached: the first Run of a project was resolved, the resolution of a
\* later one has failed, and the first Run has no output directory
C26_FailedResolutionBeforeAnyOutput ==
    /\ mode = "project" /\ pc = "failed"
    /\ Len(run_objects) >= 1 /\ Len(run_objects) < Len(mount)
    /\ ~out[run_objects[1].run_id].exists
\* The read files resolved for the samples of Run object obj
ResolvedReads(obj) ==
    UNION {{obj.sample_objects[i].r1, obj.sample_objects[i].r2} \ {NoPath} :
              i \in 1..Len(obj.sample_objects)}
    \cup UNION {{obj.nextseq_samples[i].reads[k] : k \in Range(Slots)} :
                   i \in 1..Len(obj.nextseq_samples)}

\* Every read file resolved for obj has its own copy in the reads directory of o
EachReadHasItsCopy(obj, o) ==
    \A p \in ResolvedReads(obj) : \E f \in o.files : f.dir = BaseCalls /\ f.src = p

\* C27: with rename set, the read files copied for one Run go to pairwise
\* distinct destinations: when the materialization of a Run has completed, the
\* copy of every resolved read file of every sample is in
\* Data/Intensities/BaseCalls, none overwritten by the copy of another
C27_RenamedReadsNotOverwritten ==
    \A obj \in Range(run_objects) \cup {cur} :
        (rename /\ Completed(obj)) => EachReadHasItsCopy(obj, out[OutDirOf(obj)])

\* C27, for the standard Run (copy_reads), whose samples are keyed by sample_id
C27_RenamedReadsOfStandardRunNotOverwritten ==
    \A obj \in Range(run_objects) \cup {cur} :
        (rename /\ Completed(obj) /\ obj.class = "BaseMountRun")
        => EachReadHasItsCopy(obj, out[OutDirOf(obj)])

====
